---- MODULE Spec2Model ----
(***************************************************************************)
(* Authentication and brute-force lockout of the class-website backend.   *)
(*                                                                         *)
(* The session-cookie stack (auth.py, admin.py, models.py, app.py) keeps   *)
(* a per-account failure counter and lock-expiry in the key-value table    *)
(* `config` under the keys login_fail:<account> and login_lock:<account>.  *)
(* The bearer-token stack (main.py, auth_fastapi.py) has no lockout.       *)
(*                                                                         *)
(* Python values are modelled as follows.                                  *)
(*   str            a TLA+ string; str(n) is ToString(n), int(s) is the    *)
(*                  inverse of str on IntRange and a ValueError elsewhere  *)
(*   None / a value an option: << >> is None, <<v>> is the value v         *)
(*   a table        a function from the primary key to the row             *)
(* Error messages are ASCII tags of the (Chinese) texts of the source.     *)
(***************************************************************************)
EXTENDS Integers, Sequences, FiniteSets, TLC

VARIABLES
    env,        \* os.environ, restricted to the settings the two stacks read
    now,        \* the clock: int(datetime.utcnow().timestamp())
    users,      \* table users: id -> row
    config,     \* table config: key -> value (committed rows)
    session,    \* Flask session of each client: session["uid"], 0 if unset
    resp,       \* the last HTTP response, with what the handler observed
    streak,     \* history: consecutive 401 answers per account name,
                \*          counted from an attempt that found the counter 0
    due,        \* history: lock-expiry owed to the account by the failure
                \*          that completed the streak, -1 if none
    pc,         \* concurrent requests: position of each request in login()
    loc,        \* concurrent requests: locals and ORM session of each request
    writer,     \* concurrent requests: holder of the database write lock
    kept,       \* the artifacts (session cookies, bearer tokens) of which a
                \* client has kept a copy
    born        \* history: number of user records created so far

vars ==
    <<env, now, users, config, session, resp, streak, due, pc, loc, writer,
      kept, born>>

---------------------------------------------------------------------------
(* Bounds of the model *)

\* the clock runs from 0 to MaxTime
MaxTime == 3

\* number of requests in flight in the concurrent specification
NumProcs == 3

(* Program constants *)

\* auth.py:19 and :21, default of LOGIN_MAX_TRIES
DefaultMaxTries == 6

\* auth.py:23 and :25, default of LOGIN_LOCK_SECONDS
DefaultLockSeconds == 900

\* auth_fastapi.py:19, default of ACCESS_TOKEN_EXPIRE_MINUTES (8 hours)
DefaultExpireMinutes == 480

---------------------------------------------------------------------------
(* Python values *)

None == << >>

Some(v) == <<v>>

\* the integers whose decimal form the model needs
IntRange == 0..(MaxTime + DefaultLockSeconds + DefaultMaxTries)

\* str(n) for an int n
Str(n) == ToString(n)

DecimalStrings == {Str(n) : n \in IntRange}

\* the value of each decimal string
IntTable == [s \in DecimalStrings |-> CHOOSE n \in IntRange : Str(n) = s]

\* int(s): Some(n), or None where Python raises ValueError
ParseInt(s) == IF s \in DecimalStrings THEN Some(IntTable[s]) ELSE None

\* Python truthiness of an optional string: None and '' are false
Truthy(opt) == opt /= None /\ opt[1] /= ""

\* x or default, for an optional string x
OrElse(opt, default) == IF Truthy(opt) THEN opt[1] ELSE default

---------------------------------------------------------------------------
(* Inputs *)

\* account fields a client submits, before .strip()
RawAccounts == {"admin", " admin ", "ghost", "", "  "}

\* str.strip() on the submitted account fields
Strip(raw) ==
    CASE raw = " admin " -> "admin"
      [] raw = "  "      -> ""
      [] OTHER           -> raw

\* account names after .strip()
Accounts == {Strip(r) : r \in RawAccounts} \ {""}

\* password fields a client submits
Passwords == {"admin123", "wrong", ""}

Clients == {"c1"}

\* the deployments modelled: both settings unset (threshold 6, lock 900 s),
\* and a lock of 2 s after 2 failures or after 1
EnvSettings ==
    {[LOGIN_MAX_TRIES |-> None,      LOGIN_LOCK_SECONDS |-> None,
      ACCESS_TOKEN_EXPIRE_MINUTES |-> None],
     [LOGIN_MAX_TRIES |-> Some("2"), LOGIN_LOCK_SECONDS |-> Some("2"),
      ACCESS_TOKEN_EXPIRE_MINUTES |-> None],
     [LOGIN_MAX_TRIES |-> Some("1"), LOGIN_LOCK_SECONDS |-> Some("2"),
      ACCESS_TOKEN_EXPIRE_MINUTES |-> None]}

---------------------------------------------------------------------------
(* models.py: password hashing and the two tables *)

\* werkzeug generate_password_hash: an opaque value that only raw verifies
generate_password_hash(raw) == "hash:" \o raw

\* User.check_password
check_password(user, raw) == user.password_hash = generate_password_hash(raw)

\* User.query.filter_by(account=acc).first(): Some(row) or None
UserByAccount(usrs, acc) ==
    IF \E i \in DOMAIN usrs : usrs[i].account = acc
    THEN Some(usrs[CHOOSE i \in DOMAIN usrs : usrs[i].account = acc])
    ELSE None

\* User.query.get(uid): Some(row) or None
UserById(usrs, uid) == IF uid \in DOMAIN usrs THEN Some(usrs[uid]) ELSE None

\* Config.get(key): the row's value, or None when there is no row
ConfigGet(cfg, key) == IF key \in DOMAIN cfg THEN Some(cfg[key]) ELSE None

\* Config.set(key, value): insert the row or overwrite its value
ConfigSet(cfg, key, value) ==
    IF key \in DOMAIN cfg THEN [cfg EXCEPT ![key] = value]
    ELSE (key :> value) @@ cfg

---------------------------------------------------------------------------
(* auth.py login(): settings and keys *)

\* os.getenv(name, default): the default only when the variable is unset
getenv(e, name, default) == IF e[name] = None THEN default ELSE e[name][1]

\* int(os.getenv(name, str(default))), the default on ValueError
EnvInt(e, name, default) ==
    LET got == ParseInt(getenv(e, name, Str(default)))
    IN  IF got = None THEN default ELSE got[1]

MAX_TRIES == EnvInt(env, "LOGIN_MAX_TRIES", DefaultMaxTries)

LOCK_SECONDS == EnvInt(env, "LOGIN_LOCK_SECONDS", DefaultLockSeconds)

\* a faulty variant: one lock row for all the accounts
lock_keyShared(acc) == "login_lock"

lock_key(acc) == "login_lock:" \o acc

fail_key(acc) == "login_fail:" \o acc

\* a faulty variant: the lock still holds at the instant of its expiry
IsLockedInclusive(locked_until_s, now_ts) ==
    /\ Truthy(locked_until_s)
    /\ ParseInt(locked_until_s[1]) /= None
    /\ now_ts <= ParseInt(locked_until_s[1])[1]

\* lines 32-38: a lock-expiry is present, parses, and lies in the future
IsLocked(locked_until_s, now_ts) ==
    /\ Truthy(locked_until_s)
    /\ ParseInt(locked_until_s[1]) /= None
    /\ now_ts < ParseInt(locked_until_s[1])[1]

\* lines 43-46: int(Config.get(fail_key) or '0'), 0 on ValueError
ReadCount(cfg, acc) ==
    LET got == ParseInt(OrElse(ConfigGet(cfg, fail_key(acc)), "0"))
    IN  IF got = None THEN 0 ELSE got[1]

\* a faulty variant: the threshold test is off by one
ReachedThresholdLate(cur, maxTries) == cur > maxTries

\* line 49: the threshold test, made on the incremented counter
ReachedThreshold(cur, maxTries) == cur >= maxTries

\* a faulty variant: the threshold is tested on the counter as read, before the increment
FailedLedgerTestsFirst(cfg, acc, now_ts, maxTries, lockSeconds) ==
    LET cur     == ReadCount(cfg, acc)
        counted == ConfigSet(cfg, fail_key(acc), Str(cur + 1))
    IN  IF ReachedThreshold(cur, maxTries)
        THEN ConfigSet(ConfigSet(counted, lock_key(acc), Str(now_ts + lockSeconds)),
                       fail_key(acc), "0")
        ELSE counted

\* a faulty variant: the counter is left at the threshold when the lock is set
FailedLedgerKeepsCount(cfg, acc, now_ts, maxTries, lockSeconds) ==
    LET cur     == ReadCount(cfg, acc) + 1
        counted == ConfigSet(cfg, fail_key(acc), Str(cur))
    IN  IF ReachedThreshold(cur, maxTries)
        THEN ConfigSet(counted, lock_key(acc), Str(now_ts + lockSeconds))
        ELSE counted

\* lines 47-52: count the failure; at the threshold set the lock, reset the counter
FailedLedger(cfg, acc, now_ts, maxTries, lockSeconds) ==
    LET cur     == ReadCount(cfg, acc) + 1
        counted == ConfigSet(cfg, fail_key(acc), Str(cur))
    IN  IF ReachedThreshold(cur, maxTries)
        THEN ConfigSet(ConfigSet(counted, lock_key(acc), Str(now_ts + lockSeconds)),
                       fail_key(acc), "0")
        ELSE counted

\* a faulty variant: a success resets the counter and leaves the lock row as it is
SuccessLedgerKeepsLock(cfg, acc) == ConfigSet(cfg, fail_key(acc), "0")

\* lines 60-61: clear the counter and the lock
SuccessLedger(cfg, acc) ==
    ConfigSet(ConfigSet(cfg, fail_key(acc), "0"), lock_key(acc), "")

\* line 41: the attempt fails when there is no record or the password is wrong
BadCredentials(user, pw) == user = None \/ ~check_password(user[1], pw)

\* a faulty variant: the enabled flag is not looked at
DisabledIgnored(user) == FALSE

\* line 56: the record is disabled
Disabled(user) == ~user[1].enabled

\* texts of the answers of login()
ErrMissing == "missing_account_or_password"

ErrLocked == "account_temporarily_locked"

ErrBadCredentials == "wrong_account_or_password"

ErrDisabled == "account_disabled"

\* lines 15, 36, 54, 57 and 65: the members of the JSON body of an answer of
\* login(); every answer but the 200 is jsonify({"error": ...}) with the
\* status and no header of its own
LoginBody(status) ==
    IF status = 200 THEN {"id", "account", "name", "role"} ELSE {"error"}

\* what one answer of login() is made of: status and message, the ledger and
\* the session uid it leaves (0: session untouched), and how often it read
\* the users table and ran the password verifier
Answer(status, error, cfg, uid, lookups, verifies) ==
    [status |-> status, error |-> error, config |-> cfg, uid |-> uid,
     lookups |-> lookups, verifies |-> verifies]

\* a faulty variant: a disabled record is folded into the wrong-password answer
EvaluateFolded(cfg, usrs, maxTries, lockSeconds, now_ts, acc, pw) ==
    LET user == UserByAccount(usrs, acc)
        verifies == IF user = None THEN 0 ELSE 1
    IN  IF BadCredentials(user, pw)
        THEN Answer(401, ErrBadCredentials,
                    FailedLedger(cfg, acc, now_ts, maxTries, lockSeconds),
                    0, 1, verifies)
        ELSE IF Disabled(user)
        THEN Answer(401, ErrBadCredentials, cfg, 0, 1, verifies)
        ELSE Answer(200, "", SuccessLedger(cfg, acc), user[1].id, 1, verifies)

\* a faulty variant: an account without a record is told so, and is not counted
EvaluateRevealing(cfg, usrs, maxTries, lockSeconds, now_ts, acc, pw) ==
    LET user == UserByAccount(usrs, acc)
    IN  IF user = None
        THEN Answer(401, "no_such_account", cfg, 0, 1, 0)
        ELSE IF ~check_password(user[1], pw)
        THEN Answer(401, ErrBadCredentials,
                    FailedLedger(cfg, acc, now_ts, maxTries, lockSeconds), 0, 1, 1)
        ELSE IF Disabled(user)
        THEN Answer(403, ErrDisabled, cfg, 0, 1, 1)
        ELSE Answer(200, "", SuccessLedger(cfg, acc), user[1].id, 1, 1)

\* a faulty variant: the verified password of a disabled record clears the ledger
EvaluateDisabledResets(cfg, usrs, maxTries, lockSeconds, now_ts, acc, pw) ==
    LET user == UserByAccount(usrs, acc)
        verifies == IF user = None THEN 0 ELSE 1
    IN  IF BadCredentials(user, pw)
        THEN Answer(401, ErrBadCredentials,
                    FailedLedger(cfg, acc, now_ts, maxTries, lockSeconds),
                    0, 1, verifies)
        ELSE IF Disabled(user)
        THEN Answer(403, ErrDisabled, SuccessLedger(cfg, acc), 0, 1, verifies)
        ELSE Answer(200, "", SuccessLedger(cfg, acc), user[1].id, 1, verifies)

\* lines 40-75: the attempt once it is known not to be locked
Evaluate(cfg, usrs, maxTries, lockSeconds, now_ts, acc, pw) ==
    LET user == UserByAccount(usrs, acc)
        verifies == IF user = None THEN 0 ELSE 1
    IN  IF BadCredentials(user, pw)
        THEN Answer(401, ErrBadCredentials,
                    FailedLedger(cfg, acc, now_ts, maxTries, lockSeconds),
                    0, 1, verifies)
        ELSE IF Disabled(user)
        THEN Answer(403, ErrDisabled, cfg, 0, 1, verifies)
        ELSE Answer(200, "", SuccessLedger(cfg, acc), user[1].id, 1, verifies)

\* a faulty variant: the record is fetched and the password verified before the lock
\* is looked at
LoginResultVerifyFirst(cfg, usrs, maxTries, lockSeconds, now_ts, rawAcc, pw) ==
    LET acc  == Strip(rawAcc)
        user == UserByAccount(usrs, acc)
    IN  IF acc = "" \/ pw = ""
        THEN Answer(400, ErrMissing, cfg, 0, 0, 0)
        ELSE IF IsLocked(ConfigGet(cfg, lock_key(acc)), now_ts)
        THEN Answer(429, ErrLocked, cfg, 0, 1, IF user = None THEN 0 ELSE 1)
        ELSE Evaluate(cfg, usrs, maxTries, lockSeconds, now_ts, acc, pw)

\* a faulty variant: the lock is read before the request is tested for empty fields
LoginResultLockFirst(cfg, usrs, maxTries, lockSeconds, now_ts, rawAcc, pw) ==
    LET acc == Strip(rawAcc)
    IN  IF IsLocked(ConfigGet(cfg, lock_key(acc)), now_ts)
        THEN Answer(429, ErrLocked, cfg, 0, 0, 0)
        ELSE IF acc = "" \/ pw = ""
        THEN Answer(400, ErrMissing, cfg, 0, 0, 0)
        ELSE Evaluate(cfg, usrs, maxTries, lockSeconds, now_ts, acc, pw)

\* a faulty variant: an attempt on a locked account starts the lock anew
LoginResultExtendsLock(cfg, usrs, maxTries, lockSeconds, now_ts, rawAcc, pw) ==
    LET acc == Strip(rawAcc)
    IN  IF acc = "" \/ pw = ""
        THEN Answer(400, ErrMissing, cfg, 0, 0, 0)
        ELSE IF IsLocked(ConfigGet(cfg, lock_key(acc)), now_ts)
        THEN Answer(429, ErrLocked,
                    ConfigSet(cfg, lock_key(acc), Str(now_ts + lockSeconds)), 0, 0, 0)
        ELSE Evaluate(cfg, usrs, maxTries, lockSeconds, now_ts, acc, pw)

\* lines 8-75: login() as a function of the stores, the settings, the clock
\* and the request
LoginResult(cfg, usrs, maxTries, lockSeconds, now_ts, rawAcc, pw) ==
    LET acc == Strip(rawAcc)
    IN  IF acc = "" \/ pw = ""
        THEN Answer(400, ErrMissing, cfg, 0, 0, 0)
        ELSE IF IsLocked(ConfigGet(cfg, lock_key(acc)), now_ts)
        THEN Answer(429, ErrLocked, cfg, 0, 0, 0)
        ELSE Evaluate(cfg, usrs, maxTries, lockSeconds, now_ts, acc, pw)

---------------------------------------------------------------------------
(* The observed response and the history variables *)

\* a response: the operation, status and message, the request's account and
\* password, the uid put in the session (0: none), the reads of the users
\* table and the runs of the password verifier, the token issued, and
\* whether the handler read a lock-expiry (expired or not) at line 30, and
\* the names of the members of the JSON body
Response(op, status, error, acc, pw, uid, lookups, verifies, token, had_lock, keys) ==
    [op |-> op, status |-> status, error |-> error, account |-> acc,
     password |-> pw, uid |-> uid, lookups |-> lookups,
     verifies |-> verifies, token |-> token, had_lock |-> had_lock,
     keys |-> keys]

\* the streak of an account after an answer: a 401 that found the counter 0
\* starts it, a 401 that follows continues it, a 429 leaves it as it is
\* (the attempt was not evaluated), any other answer ends it
StreakAfter(s, preCount, status, maxTries) ==
    IF status = 429 THEN s
    ELSE IF status /= 401 THEN 0
    ELSE IF preCount = 0 THEN 1
    ELSE IF s > 0 /\ s <= maxTries THEN s + 1
    ELSE 0

\* the lock-expiry owed once the streak has reached the threshold
DueAfter(d, s, status, maxTries, now_ts, lockSeconds) ==
    IF status = 429 THEN d
    ELSE IF s = maxTries THEN now_ts + lockSeconds
    ELSE -1

---------------------------------------------------------------------------
(* app.py init_db(): the store after construction *)

\* lines 61-65: the built-in administrator; rec is not a column but the
\* serial number of the record (history), which tells a record from a later
\* one that has its id or its account name
DefaultAdmin ==
    [id |-> 1, account |-> "admin", name |-> "administrator", role |-> "admin",
     password_hash |-> generate_password_hash("admin123"), enabled |-> TRUE,
     rec |-> 1]

InitStores ==
    /\ users = (1 :> DefaultAdmin)
    /\ config = << >>
    /\ session = [c \in Clients |-> 0]
    /\ now = 0
    /\ resp = Response("none", 0, "", "", "", 0, 0, 0, None, FALSE, {})
    /\ streak = [a \in Accounts |-> 0]
    /\ due = [a \in Accounts |-> -1]
    /\ kept = {}
    /\ born = 1

Procs == 1..NumProcs

IdleProcs ==
    /\ pc = [p \in Procs |-> "idle"]
    /\ loc = [p \in Procs |-> << >>]
    /\ writer = 0

Init ==
    /\ env \in EnvSettings
    /\ InitStores
    /\ IdleProcs

---------------------------------------------------------------------------
(* The session-cookie stack, one request at a time *)

\* a faulty variant: an attempt that is not answered 200 empties the session
LoginDropsSession(c, rawAcc, pw) ==
    LET acc == Strip(rawAcc)
        r   == LoginResult(config, users, MAX_TRIES, LOCK_SECONDS, now, rawAcc, pw)
        s   == StreakAfter(streak[acc], ReadCount(config, acc), r.status, MAX_TRIES)
    IN  /\ config' = r.config
        /\ session' = [session EXCEPT ![c] = IF r.status = 200 THEN r.uid ELSE 0]
        /\ resp' = Response("login", r.status, r.error, acc, pw, r.uid,
                            r.lookups, r.verifies, None,
                            r.status /= 400 /\ Truthy(ConfigGet(config, lock_key(acc))),
                            LoginBody(r.status))
        /\ IF r.status = 400
           THEN UNCHANGED <<streak, due>>
           ELSE /\ streak' = [streak EXCEPT ![acc] = s]
                /\ due' = [due EXCEPT ![acc] = DueAfter(due[acc], s, r.status, MAX_TRIES, now,
                                                          LOCK_SECONDS)]
        /\ UNCHANGED <<env, now, users, pc, loc, writer, kept, born>>

\* auth.py login(), lines 8-75
Login(c, rawAcc, pw) ==
    LET acc == Strip(rawAcc)
        r   == LoginResult(config, users, MAX_TRIES, LOCK_SECONDS, now, rawAcc, pw)
        s   == StreakAfter(streak[acc], ReadCount(config, acc), r.status, MAX_TRIES)
    IN  /\ config' = r.config
        /\ session' = IF r.status = 200 THEN [session EXCEPT ![c] = r.uid] ELSE session
        /\ resp' = Response("login", r.status, r.error, acc, pw, r.uid,
                            r.lookups, r.verifies, None,
                            r.status /= 400 /\ Truthy(ConfigGet(config, lock_key(acc))),
                            LoginBody(r.status))
        /\ IF r.status = 400
           THEN UNCHANGED <<streak, due>>
           ELSE /\ streak' = [streak EXCEPT ![acc] = s]
                /\ due' = [due EXCEPT ![acc] = DueAfter(due[acc], s, r.status, MAX_TRIES, now,
                                                          LOCK_SECONDS)]
        /\ UNCHANGED <<env, now, users, pc, loc, writer, kept, born>>

\* the clock advances
Tick ==
    /\ now < MaxTime
    /\ now' = now + 1
    /\ UNCHANGED <<env, users, config, session, resp, streak, due, pc, loc, writer, kept, born>>

\* a cookie whose signature does not verify; Flask then opens an empty session
Garbled == -1

\* session.get("uid") on the cookie a request carries, 0 for None
session_uid(cookie) == IF cookie = Garbled THEN 0 ELSE cookie

\* admin.py current_user(), lines 24-29: the live record of session["uid"]
current_user(usrs, uid) == IF uid = 0 THEN None ELSE UserById(usrs, uid)

\* a faulty variant: whoever is logged in may run the handler
require_rolesAnyRole(usrs, uid, roles) ==
    IF current_user(usrs, uid) = None THEN 401 ELSE 0

\* admin.py require_roles(), lines 31-42: 0 when the handler may run
require_roles(usrs, uid, roles) ==
    LET u == current_user(usrs, uid)
    IN  IF u = None THEN 401
        ELSE IF roles /= {} /\ u[1].role \notin roles THEN 403
        ELSE 0

\* request bodies of PUT /users/<uid>
UpdateBodies == {("enabled" :> FALSE), ("enabled" :> TRUE)}

\* admin.py:293, the shortest password accepted
MinPasswordLength == 6

\* len() of the passwords of the model
len(pw) ==
    CASE pw = ""         -> 0
      [] pw = "wrong"    -> 5
      [] pw = "admin123" -> 8
      [] pw = "rotated1" -> 8

\* admin.py admin_update_user(), lines 284-295: the row after the update,
\* None when the new password is refused
UpdatedUser(u, body) ==
    LET has(k)  == k \in DOMAIN body
        named   == IF has("name")
                   THEN [u EXCEPT !.name = body["name"]] ELSE u
        roled   == IF has("role")
                   THEN [named EXCEPT !.role = IF body["role"] = "" THEN "student"
                                               ELSE body["role"]]
                   ELSE named
        enabled == IF has("enabled")
                   THEN [roled EXCEPT !.enabled = body["enabled"]] ELSE roled
    IN  IF has("password") /\ body["password"] /= ""
        THEN IF len(body["password"]) < MinPasswordLength THEN None
             ELSE Some([enabled EXCEPT
                          !.password_hash = generate_password_hash(body["password"])])
        ELSE Some(enabled)

\* admin.py admin_update_user(), lines 279-297, behind require_roles(('admin',))
AdminUpdateUser(c, uid, body) ==
    LET guard == require_roles(users, session_uid(session[c]), {"admin"})
        done(status, error) ==
            resp' = Response("admin_update_user", status, error, "", "", 0, 0, 0,
                             None, FALSE,
                             IF status = 200 THEN {"ok"}
                             ELSE IF status = 404 THEN {} ELSE {"ok", "message"})
    IN  /\ IF guard /= 0
           THEN /\ done(guard, IF guard = 401 THEN "login_required" ELSE "forbidden")
                /\ UNCHANGED users
           ELSE IF uid \notin DOMAIN users
           THEN done(404, "not_found") /\ UNCHANGED users
           ELSE IF UpdatedUser(users[uid], body) = None
           THEN done(400, "password_too_short") /\ UNCHANGED users
           ELSE /\ users' = [users EXCEPT ![uid] = UpdatedUser(users[uid], body)[1]]
                /\ done(200, "")
        /\ UNCHANGED <<env, now, config, session, streak, due, pc, loc, writer, kept, born>>

---------------------------------------------------------------------------
(* The bearer-token stack *)

\* auth_fastapi.py:19: int(os.getenv("ACCESS_TOKEN_EXPIRE_MINUTES", "480"))
ACCESS_TOKEN_EXPIRE_MINUTES ==
    ParseInt(getenv(env, "ACCESS_TOKEN_EXPIRE_MINUTES", Str(DefaultExpireMinutes)))[1]

\* auth_fastapi.py verify_password(), lines 24-26
verify_password(plain_password, hashed_password) ==
    hashed_password = generate_password_hash(plain_password)

\* auth_fastapi.py authenticate_user(), lines 53-63: Some(row) or None
authenticate_user(usrs, account, password) ==
    LET user == UserByAccount(usrs, account)
    IN  IF user = None THEN None
        ELSE IF ~verify_password(password, user[1].password_hash) THEN None
        ELSE user

\* auth_fastapi.py create_access_token(), lines 37-46: the claims of the token
create_access_token(sub, now_ts) ==
    [sub |-> sub, exp |-> now_ts + ACCESS_TOKEN_EXPIRE_MINUTES * 60]

\* a faulty variant: the token login consults the lock of the ledger
LoginTokenLocking(username, password) ==
    LET user == authenticate_user(users, username, password)
        done(status, error, token) ==
            resp' = Response("token_login", status, error, username, password, 0,
                             1, IF UserByAccount(users, username) = None THEN 0 ELSE 1,
                             token, FALSE,
                             IF status = 200 THEN {"access_token", "token_type"}
                             ELSE {"detail"})
    IN  /\ IF IsLocked(ConfigGet(config, lock_key(username)), now)
           THEN done(429, ErrLocked, None)
           ELSE IF user = None
           THEN done(401, "Incorrect account or password", None)
           ELSE IF ~user[1].enabled
           THEN done(403, "User account is disabled", None)
           ELSE done(200, "", Some(create_access_token(user[1].account, now)))
        /\ UNCHANGED <<env, now, users, config, session, streak, due, pc, loc, writer, kept, born>>

\* main.py login_for_access_token(), lines 67-82
LoginToken(username, password) ==
    LET user == authenticate_user(users, username, password)
        done(status, error, token) ==
            resp' = Response("token_login", status, error, username, password, 0,
                             1, IF UserByAccount(users, username) = None THEN 0 ELSE 1,
                             token, FALSE,
                             IF status = 200 THEN {"access_token", "token_type"}
                             ELSE {"detail"})
    IN  /\ IF user = None
           THEN done(401, "Incorrect account or password", None)
           ELSE IF ~user[1].enabled
           THEN done(403, "User account is disabled", None)
           ELSE done(200, "", Some(create_access_token(user[1].account, now)))
        /\ UNCHANGED <<env, now, users, config, session, streak, due, pc, loc, writer, kept, born>>

---------------------------------------------------------------------------
(* One request at a time *)

Next ==
    \/ \E c \in Clients, a \in RawAccounts, p \in Passwords : Login(c, a, p)
    \/ \E a \in RawAccounts \ {"", "  "}, p \in Passwords \ {""} : LoginToken(a, p)
    \/ \E c \in Clients, uid \in 1..2, body \in UpdateBodies :
          AdminUpdateUser(c, uid, body)
    \/ Tick

Spec == Init /\ [][Next]_vars

---------------------------------------------------------------------------
(* The session-cookie stack under concurrent requests.                     *)
(*                                                                         *)
(* Every request runs login() in its own ORM session on the one database   *)
(* (app.py:32, SQLite unless DB_URL says otherwise). Config.query...first() *)
(* first flushes the session's pending change, then reads: the committed   *)
(* rows overlaid with the rows the session has flushed itself. A flush     *)
(* writes, so it takes the database write lock and holds it until the      *)
(* commit; a request that needs the lock while another holds it waits. An  *)
(* INSERT of a key that by now has a row raises IntegrityError, which      *)
(* login() does not catch: the request ends 500 and its transaction is     *)
(* rolled back. The requests arrive within one second (the clock stands).  *)

\* the requests in flight: wrong and right passwords for the one account
ConcRequests ==
    {[account |-> "admin", password |-> "wrong"],
     [account |-> "admin", password |-> "admin123"]}

\* the locals of a request that has not yet read anything
Locals(acc, pw, now_ts) ==
    [acc |-> acc, pw |-> pw, now_ts |-> now_ts, cur |-> 0, fresh |-> TRUE,
     pending |-> None, tx |-> << >>, status |-> 0]

\* the rows a request's SELECT sees
Visible(p) == loc[p].tx @@ config

\* models.py Config.set(), lines 26-33, in a session: the change is pending,
\* an INSERT when the query found no row among `rows`
Pending(rows, key, value) ==
    Some([key |-> key, value |-> value, insert |-> key \notin DOMAIN rows])

\* what the concurrent requests leave alone
Rest == UNCHANGED <<env, now, users, resp, streak, due, kept, born>>

\* the pending change cannot be flushed yet: another request holds the lock
FlushBlocked(p) == loc[p].pending /= None /\ writer \notin {0, p}

\* the pending INSERT hits a row another request has committed meanwhile
FlushConflict(p) ==
    /\ loc[p].pending /= None
    /\ loc[p].pending[1].insert
    /\ loc[p].pending[1].key \in DOMAIN config

\* the session's flushed rows once the pending change is written
Flushed(p) ==
    IF loc[p].pending = None THEN loc[p].tx
    ELSE (loc[p].pending[1].key :> loc[p].pending[1].value) @@ loc[p].tx

\* the request ends: its locals keep the status and the transaction is over
Finish(p, status) ==
    /\ pc' = [pc EXCEPT ![p] = "done"]
    /\ loc' = [loc EXCEPT ![p] = [@ EXCEPT !.status = status, !.pending = None,
                                             !.tx = << >>]]

\* the steps of login() that write to the database: each flushes the pending
\* change, the last of a path commits
SuccessSteps == {"clear_fail", "clear_lock", "commit_ok"}

WriteSteps == {"set_lock", "reset_fail", "commit"} \cup SuccessSteps

\* a faulty variant: the error of the write is caught and the handler answers as if
\* the write had been made
CrashSwallowed(p) ==
    /\ Finish(p, IF pc[p] \in SuccessSteps THEN 200 ELSE 401)
    /\ writer' = IF writer = p THEN 0 ELSE writer
    /\ session' = IF pc[p] \in SuccessSteps
                  THEN [session EXCEPT ![CHOOSE c \in Clients : TRUE] =
                           UserByAccount(users, loc[p].acc)[1].id]
                  ELSE session
    /\ UNCHANGED config

\* the unhandled error of a write (IntegrityError, OperationalError):
\* login() has no try around Config.set and commit, so the request ends
\* 500 before lines 54 and 64 are reached, and its transaction is rolled back
Crash(p) ==
    /\ Finish(p, 500)
    /\ writer' = IF writer = p THEN 0 ELSE writer
    /\ UNCHANGED <<config, session>>

\* a query of the session followed by Config.set(key, value): autoflush, then
\* the new pending change; the request goes on at `next`
QueryAndSet(p, key, value, next) ==
    /\ ~FlushBlocked(p)
    /\ IF FlushConflict(p)
       THEN Crash(p)
       ELSE /\ writer' = IF loc[p].pending /= None THEN p ELSE writer
            /\ loc' = [loc EXCEPT ![p] =
                         [@ EXCEPT !.tx = Flushed(p),
                                   !.pending =
                                       Pending(Flushed(p) @@ config, key, value)]]
            /\ pc' = [pc EXCEPT ![p] = next]
            /\ UNCHANGED <<config, session>>

\* db.session.commit(): flush, make the transaction's rows the committed
\* ones, release the lock; the request ends with `status`
Commit(p, status) ==
    /\ ~FlushBlocked(p)
    /\ IF FlushConflict(p)
       THEN Crash(p)
       ELSE /\ config' = Flushed(p) @@ config
            /\ writer' = 0
            /\ Finish(p, status)
            /\ session' = IF status = 200
                          THEN [session EXCEPT ![CHOOSE c \in Clients : TRUE] =
                                   UserByAccount(users, loc[p].acc)[1].id]
                          ELSE session

\* lines 10-38: read the request, the settings, the lock and the clock
Begin(p, req) ==
    /\ Rest
    /\ pc[p] = "idle"
    /\ IF Strip(req.account) = "" \/ req.password = ""
       THEN Finish(p, 400)
       ELSE IF IsLocked(ConfigGet(config, lock_key(Strip(req.account))), now)
       THEN /\ pc' = [pc EXCEPT ![p] = "done"]
            /\ loc' = [loc EXCEPT ![p] =
                         [Locals(Strip(req.account), req.password, now)
                            EXCEPT !.status = 429]]
       ELSE /\ pc' = [pc EXCEPT ![p] = "lookup"]
            /\ loc' = [loc EXCEPT ![p] = Locals(Strip(req.account), req.password, now)]
    /\ UNCHANGED <<config, session, writer>>

\* lines 40-46 and 56-57: fetch the record, verify; on a failure read the counter
Lookup(p) ==
    /\ Rest
    /\ pc[p] = "lookup"
    /\ LET user == UserByAccount(users, loc[p].acc)
       IN  IF BadCredentials(user, loc[p].pw)
           THEN /\ loc' = [loc EXCEPT ![p].cur = ReadCount(config, loc[p].acc)]
                /\ pc' = [pc EXCEPT ![p] = "set_fail"]
           ELSE IF Disabled(user)
           THEN Finish(p, 403)
           ELSE /\ pc' = [pc EXCEPT ![p] = "clear_fail"]
                /\ UNCHANGED loc
    /\ UNCHANGED <<config, session, writer>>

\* lines 47-49: increment, Config.set(fail_key, str(cur)), test the threshold
SetFail(p) ==
    /\ Rest
    /\ pc[p] = "set_fail"
    /\ LET cur == loc[p].cur + 1
       IN  /\ loc' = [loc EXCEPT ![p] =
                        [@ EXCEPT !.cur = cur,
                                  !.fresh = (cur = ReadCount(config, loc[p].acc) + 1),
                                  !.pending = Pending(Visible(p), fail_key(loc[p].acc),
                                                       Str(cur))]]
           /\ pc' = [pc EXCEPT ![p] =
                        IF ReachedThreshold(cur, MAX_TRIES) THEN "set_lock" ELSE "commit"]
    /\ UNCHANGED <<config, session, writer>>

\* lines 50-51: Config.set(lock_key, str(lock_ts))
SetLock(p) ==
    /\ Rest
    /\ pc[p] = "set_lock"
    /\ QueryAndSet(p, lock_key(loc[p].acc), Str(loc[p].now_ts + LOCK_SECONDS),
                   "reset_fail")

\* a faulty variant: at the threshold the counter is written again as counted
ResetFailSkipped(p) ==
    /\ Rest
    /\ pc[p] = "reset_fail"
    /\ QueryAndSet(p, fail_key(loc[p].acc), Str(loc[p].cur), "commit")

\* line 52: Config.set(fail_key, '0')
ResetFail(p) ==
    /\ Rest
    /\ pc[p] = "reset_fail"
    /\ QueryAndSet(p, fail_key(loc[p].acc), "0", "commit")

\* lines 53-54: commit, answer 401
CommitFailure(p) ==
    /\ Rest
    /\ pc[p] = "commit"
    /\ Commit(p, 401)

\* line 60: Config.set(fail_key, '0')
ClearFail(p) ==
    /\ Rest
    /\ pc[p] = "clear_fail"
    /\ QueryAndSet(p, fail_key(loc[p].acc), "0", "clear_lock")

\* line 61: Config.set(lock_key, '')
ClearLock(p) ==
    /\ Rest
    /\ pc[p] = "clear_lock"
    /\ QueryAndSet(p, lock_key(loc[p].acc), "", "commit_ok")

\* lines 62-75: commit, put the uid in the session, answer 200
CommitSuccess(p) ==
    /\ Rest
    /\ pc[p] = "commit_ok"
    /\ Commit(p, 200)

\* a write of the request fails in the database (disk full, I/O error, the
\* write lock not obtained in time): the flush at a Config query or at the
\* commit raises
StorageFault(p) ==
    /\ Rest
    /\ pc[p] \in WriteSteps
    /\ loc[p].pending /= None
    /\ Crash(p)

\* the ledgers the requests find: no rows yet, or the rows a success leaves
ZeroLedgers ==
    { << >>, (fail_key("admin") :> "0") @@ (lock_key("admin") :> "") }

InitConc ==
    /\ env \in {[LOGIN_MAX_TRIES |-> Some("2"), LOGIN_LOCK_SECONDS |-> None,
                 ACCESS_TOKEN_EXPIRE_MINUTES |-> None],
                [LOGIN_MAX_TRIES |-> None,      LOGIN_LOCK_SECONDS |-> None,
                 ACCESS_TOKEN_EXPIRE_MINUTES |-> None]}
    /\ users = (1 :> DefaultAdmin)
    /\ config \in ZeroLedgers
    /\ session = [c \in Clients |-> 0]
    /\ now = 0
    /\ resp = Response("none", 0, "", "", "", 0, 0, 0, None, FALSE, {})
    /\ streak = [a \in Accounts |-> 0]
    /\ due = [a \in Accounts |-> -1]
    /\ kept = {}
    /\ born = 1
    /\ IdleProcs

NextConc ==
    \/ \E p \in Procs, req \in ConcRequests : Begin(p, req)
    \/ \E p \in Procs : Lookup(p)
    \/ \E p \in Procs : SetFail(p)
    \/ \E p \in Procs : SetLock(p)
    \/ \E p \in Procs : ResetFail(p)
    \/ \E p \in Procs : CommitFailure(p)
    \/ \E p \in Procs : ClearFail(p)
    \/ \E p \in Procs : ClearLock(p)
    \/ \E p \in Procs : CommitSuccess(p)

SpecConc == InitConc /\ [][NextConc]_vars

\* the concurrent requests on a database whose writes may fail
NextFault ==
    \/ NextConc
    \/ \E p \in Procs : StorageFault(p)

SpecFault == InitConc /\ [][NextFault]_vars

---------------------------------------------------------------------------
(* The Access Guard of both stacks, and the artifacts clients hold.        *)
(*                                                                         *)
(* The Flask session is the signed cookie itself: app.py sets a secret key *)
(* and no server-side session store, so the server keeps nothing of a      *)
(* session, and session[c] is the cookie client c sends. A bearer token is *)
(* the signed claims sub and exp. A client may keep a copy of an artifact  *)
(* it was issued and send it again later.                                  *)

\* number of artifacts of which copies are kept
MaxKept == 1

\* number of times the lifetime of a token passes while the guards are
\* exercised
MaxWait == 1

\* number of user records ever created, the built-in administrator included
MaxBorn == 3

\* a kept copy of a session cookie; rec and role are history: the record
\* the cookie was issued to, and the role it had then
CookieCopy(uid, u) ==
    [kind |-> "cookie", uid |-> uid, sub |-> "", exp |-> 0,
     rec |-> u.rec, role |-> u.role]

\* a kept copy of a bearer token; rec is history: the record it was issued to
TokenCopy(token, u) ==
    [kind |-> "token", uid |-> 0, sub |-> token.sub, exp |-> token.exp,
     rec |-> u.rec, role |-> ""]

\* the client keeps a copy of the cookie a login has just set
KeepCookie(c) ==
    /\ Cardinality(kept) < MaxKept
    /\ resp.op = "login" /\ resp.status = 200 /\ session[c] = resp.uid
    /\ kept' = kept \cup {CookieCopy(resp.uid, users[resp.uid])}
    /\ UNCHANGED <<env, now, users, config, session, resp, streak, due, pc, loc,
                   writer, born>>

\* the client keeps a copy of the token a login has just returned
KeepToken ==
    /\ Cardinality(kept) < MaxKept
    /\ resp.op = "token_login" /\ resp.status = 200
    /\ kept' = kept \cup {TokenCopy(resp.token[1],
                                     UserByAccount(users, resp.account)[1])}
    /\ UNCHANGED <<env, now, users, config, session, resp, streak, due, pc, loc,
                   writer, born>>

\* the cookies a client can put in its request: a kept copy, or a value that
\* is not a cookie the server has signed
Presentable == {k.uid : k \in {x \in kept : x.kind = "cookie"}} \cup {Garbled}

\* the client replaces the cookie it sends
Present(c, cookie) ==
    /\ cookie \in Presentable
    /\ session[c] /= cookie
    /\ session' = [session EXCEPT ![c] = cookie]
    /\ UNCHANGED <<env, now, users, config, resp, streak, due, pc, loc, writer,
                   kept, born>>

\* what the requests below leave alone
Stores == UNCHANGED <<env, config, streak, due, pc, loc, writer, kept>>

\* the response of a request other than a login: who the request was found
\* to come from (account and uid, "" and 0 for nobody)
Reply(op, status, error, actor, token, keys) ==
    Response(op, status, error,
             IF actor = None THEN "" ELSE actor[1].account, "",
             IF actor = None THEN 0 ELSE actor[1].id,
             0, 0, token, FALSE, keys)

\* admin.py require_roles(), lines 36-39: the answers of the guard
Refusal(op, guard) ==
    Reply(op, guard, IF guard = 401 THEN "login_required" ELSE "forbidden",
          None, None, {"ok", "message"})

\* auth.py logout(), lines 102-113: the response carries an emptied session;
\* uid is the uid of the session the request came with
Logout(c) ==
    /\ session' = [session EXCEPT ![c] = 0]
    /\ resp' = Response("logout", 200, "", "", "", session_uid(session[c]),
                        0, 0, None, FALSE, {"ok"})
    /\ UNCHANGED <<now, users, born>> /\ Stores

\* auth.py me(), lines 77-100: null without a uid; u.id on the None that
\* User.query.get returns for a uid without a record is an AttributeError
me(c) ==
    LET uid == session_uid(session[c])
        u   == UserById(users, uid)
    IN  /\ resp' = IF uid = 0 THEN Reply("me", 200, "", None, None, {})
                   ELSE IF u = None
                   THEN Reply("me", 500, "AttributeError", None, None, {})
                   ELSE Reply("me", 200, "", u, None,
                              {"id", "account", "name", "role"})
        /\ UNCHANGED <<now, users, session, born>> /\ Stores

\* admin.py admin_get_site(), lines 45-55, behind require_roles()
admin_get_site(c) ==
    LET uid   == session_uid(session[c])
        guard == require_roles(users, uid, {"teacher", "admin"})
    IN  /\ resp' = IF guard /= 0 THEN Refusal("admin_get_site", guard)
                   ELSE Reply("admin_get_site", 200, "", current_user(users, uid),
                              None, {"schoolName", "className", "subtitle",
                                     "teacherName", "contactEmail"})
        /\ UNCHANGED <<now, users, session, born>> /\ Stores

\* request bodies of POST /users
CreateBodies ==
    {[account |-> "ghost", role |-> r, password |-> "admin123"] :
        r \in {"teacher", ""}}

\* models.py:38, an INTEGER PRIMARY KEY of SQLite (app.py:32): the largest
\* id in the table plus one
NextId(usrs) ==
    IF DOMAIN usrs = {} THEN 1
    ELSE (CHOOSE i \in DOMAIN usrs : \A j \in DOMAIN usrs : j <= i) + 1

\* admin.py admin_create_user(), lines 257-277, behind require_roles(('admin',))
admin_create_user(c, body) ==
    LET uid   == session_uid(session[c])
        guard == require_roles(users, uid, {"admin"})
        actor == current_user(users, uid)
        op    == "admin_create_user"
        row   == [id |-> NextId(users), account |-> Strip(body.account),
                  name |-> "", role |-> IF body.role = "" THEN "student" ELSE body.role,
                  password_hash |-> generate_password_hash(body.password),
                  enabled |-> TRUE, rec |-> born + 1]
    IN  /\ born < MaxBorn
        /\ IF guard /= 0
           THEN resp' = Refusal(op, guard) /\ UNCHANGED <<users, born>>
           ELSE IF Strip(body.account) = ""
           THEN /\ resp' = Reply(op, 400, "account_required", actor, None,
                                 {"ok", "message"})
                /\ UNCHANGED <<users, born>>
           ELSE IF UserByAccount(users, Strip(body.account)) /= None
           THEN /\ resp' = Reply(op, 409, "account_exists", actor, None,
                                 {"ok", "message"})
                /\ UNCHANGED <<users, born>>
           ELSE IF body.password = "" \/ len(body.password) < MinPasswordLength
           THEN /\ resp' = Reply(op, 400, "password_too_short", actor, None,
                                 {"ok", "message"})
                /\ UNCHANGED <<users, born>>
           ELSE /\ users' = (row.id :> row) @@ users
                /\ born' = born + 1
                /\ resp' = Reply(op, 200, "", actor, None,
                                 {"id", "account", "name", "role", "enabled",
                                  "createdAt", "updatedAt"})
        /\ UNCHANGED <<now, session>> /\ Stores

\* admin.py admin_delete_user(), lines 299-304, behind require_roles(('admin',))
admin_delete_user(c, target) ==
    LET uid   == session_uid(session[c])
        guard == require_roles(users, uid, {"admin"})
        op    == "admin_delete_user"
    IN  /\ IF guard /= 0
           THEN resp' = Refusal(op, guard) /\ UNCHANGED users
           ELSE IF target \notin DOMAIN users
           THEN /\ resp' = Reply(op, 404, "not_found", current_user(users, uid),
                                 None, {})
                /\ UNCHANGED users
           ELSE /\ users' = [i \in DOMAIN users \ {target} |-> users[i]]
                /\ resp' = Reply(op, 200, "", current_user(users, uid), None, {"ok"})
        /\ UNCHANGED <<now, session, born>> /\ Stores

\* request bodies of PUT /users/<uid> that disable, enable or change the role
GuardBodies == UpdateBodies \cup {("role" :> "student"), ("role" :> "teacher")}

\* the Authorization header of a request: None, or a bearer token that is
\* genuine (signed with SECRET_KEY) or not
Bearer(token, genuine) == Some([claims |-> token, genuine |-> genuine])

\* auth_fastapi.py:43, the seconds a token is valid for
Lifetime == ACCESS_TOKEN_EXPIRE_MINUTES * 60

\* a token that was not signed with SECRET_KEY
Forged == Bearer([sub |-> "admin", exp |-> (MaxWait + 1) * (Lifetime + 1)], FALSE)

\* the headers a client can send: none, a forged token, a kept token
Headers ==
    {None, Forged}
        \cup {Bearer([sub |-> k.sub, exp |-> k.exp], TRUE) :
                 k \in {x \in kept : x.kind = "token"}}

\* a faulty variant: the expiry of the token is not looked at
decodeForever(bearer, now_ts) ==
    IF ~bearer.genuine THEN None ELSE Some(bearer.claims)

\* auth_fastapi.py:77, jose jwt.decode(): the claims, None for the JWTError
\* of a signature that does not verify or of an exp that has passed
decode(bearer, now_ts) ==
    IF ~bearer.genuine \/ bearer.claims.exp < now_ts THEN None
    ELSE Some(bearer.claims)

\* what a dependency of the bearer-token stack yields: status 0 and the user,
\* or the status and detail of the HTTPException it raises
Yield(status, detail, user) == [status |-> status, detail |-> detail, user |-> user]

\* auth_fastapi.py get_current_user(), lines 66-92, behind oauth2_scheme
\* (line 34), which raises 401 when the header is missing
get_current_user(usrs, header, now_ts) ==
    IF header = None THEN Yield(401, "Not authenticated", None)
    ELSE LET payload == decode(header[1], now_ts)
             user    == UserByAccount(usrs, payload[1].sub)
         IN  IF payload = None
             THEN Yield(401, "Could not validate credentials", None)
             ELSE IF user = None
             THEN Yield(401, "Could not validate credentials", None)
             ELSE IF ~user[1].enabled
             THEN Yield(403, "User account is disabled", None)
             ELSE Yield(0, "", user)

\* a faulty variant: every router is open to teachers
role_checkerTeachers(usrs, header, now_ts, required_roles) ==
    LET cur == get_current_user(usrs, header, now_ts)
    IN  IF cur.status /= 0 THEN cur
        ELSE IF cur.user[1].role \notin (required_roles \cup {"teacher"})
        THEN Yield(403, "Access denied", None)
        ELSE cur

\* auth_fastapi.py require_roles(), lines 94-106: the dependency role_checker
role_checker(usrs, header, now_ts, required_roles) ==
    LET cur == get_current_user(usrs, header, now_ts)
    IN  IF cur.status /= 0 THEN cur
        ELSE IF cur.user[1].role \notin required_roles
        THEN Yield(403, "Access denied", None)
        ELSE cur

\* operations of the bearer-token stack: main.py:84, :136 and :351
TokenOps == {"read_users_me", "main_admin_get_site", "main_admin_list_users"}

\* main.py:51-63: the roles the router of an operation depends on
RouterRoles(op) ==
    IF op = "main_admin_list_users" THEN {"admin"} ELSE {"teacher", "admin"}

\* main.py: a request to an operation of the bearer-token stack
TokenRequest(header, op) ==
    LET got == IF op = "read_users_me"
               THEN get_current_user(users, header, now)
               ELSE role_checker(users, header, now, RouterRoles(op))
        token == IF header = None THEN None ELSE Some(header[1].claims)
    IN  /\ header \in Headers
        /\ resp' = IF got.status /= 0
                   THEN Reply(op, got.status, got.detail, None, token, {"detail"})
                   ELSE Reply(op, 200, "", got.user, token, {"data"})
        /\ UNCHANGED <<now, users, session, born>> /\ Stores

\* the guard specification starts from the store after construction, with
\* the settings unset
InitGuard ==
    /\ env = [LOGIN_MAX_TRIES |-> None, LOGIN_LOCK_SECONDS |-> None,
              ACCESS_TOKEN_EXPIRE_MINUTES |-> None]
    /\ InitStores
    /\ IdleProcs

\* the accounts that have a record: the clients of the guard specification
\* log in with these and with their password
Registered == {users[i].account : i \in DOMAIN users}

\* the lifetime of a token passes, and a second more
Wait ==
    /\ now < MaxWait * (Lifetime + 1)
    /\ now' = now + Lifetime + 1
    /\ UNCHANGED <<users, session, resp, born>> /\ Stores

NextGuard ==
    \/ \E c \in Clients, a \in Registered : Login(c, a, "admin123")
    \/ \E a \in Registered : LoginToken(a, "admin123")
    \/ \E c \in Clients : KeepCookie(c)
    \/ KeepToken
    \/ \E c \in Clients, cookie \in Presentable : Present(c, cookie)
    \/ \E c \in Clients : Logout(c)
    \/ \E c \in Clients : me(c)
    \/ \E c \in Clients : admin_get_site(c)
    \/ \E c \in Clients, body \in CreateBodies : admin_create_user(c, body)
    \/ \E c \in Clients, body \in GuardBodies : AdminUpdateUser(c, 2, body)
    \/ \E c \in Clients : admin_delete_user(c, 2)
    \/ \E header \in Headers, op \in TokenOps : TokenRequest(header, op)
    \/ Wait

SpecGuard == InitGuard /\ [][NextGuard]_vars

---------------------------------------------------------------------------
(* User management of both stacks, with any role in the request body *)

\* schemas.py:22 and :30, the pattern ^(student|teacher|admin)$
RolePattern == {"student", "teacher", "admin"}

\* the role of a request body: of the enumeration, empty, outside it
RoleValues == {"teacher", "", "owner"}

\* request bodies of POST /users of both stacks
RoleCreateBodies ==
    {[account |-> "ghost", role |-> r, password |-> "admin123"] : r \in RoleValues}

\* request bodies of PUT /api/admin/users/<uid>
RoleUpdateBodies == {("role" :> r) : r \in RoleValues}

\* request bodies of PUT /users/{user_id} of the bearer-token stack: a role,
\* or an explicit null
MainUpdateBodies == {("role" :> Some(r)) : r \in RoleValues} \cup {("role" :> None)}

\* schemas.py UserCreate, lines 19-26: the role matches the pattern and the
\* password has min_length 6 (the accounts of the bodies have 3..64 characters)
ValidUserCreate(body) ==
    body.role \in RolePattern /\ len(body.password) >= MinPasswordLength

\* schemas.py UserUpdate, lines 28-32: a role that is not null matches the
\* pattern
ValidUserUpdate(body) ==
    "role" \in DOMAIN body /\ body["role"] /= None => body["role"][1] \in RolePattern

\* main.py admin_create_user(), lines 355-366, behind
\* require_roles(('admin',)) (main.py:59-63); a body that does not validate
\* is answered 422 before the handler runs
main_admin_create_user(header, body) ==
    LET got   == role_checker(users, header, now, {"admin"})
        token == IF header = None THEN None ELSE Some(header[1].claims)
        op    == "main_admin_create_user"
        row   == [id |-> NextId(users), account |-> body.account, name |-> "",
                  role |-> body.role,
                  password_hash |-> generate_password_hash(body.password),
                  enabled |-> TRUE, rec |-> born + 1]
    IN  /\ header \in Headers
        /\ born < MaxBorn
        /\ IF got.status /= 0
           THEN /\ resp' = Reply(op, got.status, got.detail, None, token, {"detail"})
                /\ UNCHANGED <<users, born>>
           ELSE IF ~ValidUserCreate(body)
           THEN /\ resp' = Reply(op, 422, "validation", got.user, token, {"detail"})
                /\ UNCHANGED <<users, born>>
           ELSE IF UserByAccount(users, body.account) /= None
           THEN /\ resp' = Reply(op, 409, "Account already exists", got.user, token,
                                 {"detail"})
                /\ UNCHANGED <<users, born>>
           ELSE /\ users' = (row.id :> row) @@ users
                /\ born' = born + 1
                /\ resp' = Reply(op, 201, "", got.user, token,
                                 {"id", "account", "name", "role", "enabled",
                                  "created_at", "updated_at"})
        /\ UNCHANGED <<now, session>> /\ Stores

\* main.py admin_update_user(), lines 368-384, behind
\* require_roles(('admin',)); setattr(db_user, "role", None) for an explicit
\* null fails the commit on the NOT NULL column (models.py:41)
main_admin_update_user(header, target, body) ==
    LET got   == role_checker(users, header, now, {"admin"})
        token == IF header = None THEN None ELSE Some(header[1].claims)
        op    == "main_admin_update_user"
    IN  /\ header \in Headers
        /\ IF got.status /= 0
           THEN /\ resp' = Reply(op, got.status, got.detail, None, token, {"detail"})
                /\ UNCHANGED users
           ELSE IF ~ValidUserUpdate(body)
           THEN /\ resp' = Reply(op, 422, "validation", got.user, token, {"detail"})
                /\ UNCHANGED users
           ELSE IF target \notin DOMAIN users
           THEN /\ resp' = Reply(op, 404, "Not Found", got.user, token, {"detail"})
                /\ UNCHANGED users
           ELSE IF body["role"] = None
           THEN /\ resp' = Reply(op, 500, "IntegrityError", got.user, token, {})
                /\ UNCHANGED users
           ELSE /\ users' = [users EXCEPT ![target].role = body["role"][1]]
                /\ resp' = Reply(op, 200, "", got.user, token,
                                 {"id", "account", "name", "role", "enabled",
                                  "created_at", "updated_at"})
        /\ UNCHANGED <<now, session, born>> /\ Stores

NextRoles ==
    \/ \E c \in Clients : Login(c, "admin", "admin123")
    \/ LoginToken("admin", "admin123")
    \/ KeepToken
    \/ \E c \in Clients, body \in RoleCreateBodies : admin_create_user(c, body)
    \/ \E c \in Clients, uid \in 1..2, body \in RoleUpdateBodies :
          AdminUpdateUser(c, uid, body)
    \/ \E c \in Clients : admin_delete_user(c, 2)
    \/ \E header \in Headers, body \in RoleCreateBodies :
          main_admin_create_user(header, body)
    \/ \E header \in Headers, body \in MainUpdateBodies :
          main_admin_update_user(header, 2, body)

SpecRoles == InitGuard /\ [][NextRoles]_vars

---------------------------------------------------------------------------
(* The bootstrap of the administrator *)

\* a faulty variant: the record of 'admin' is put back to the default one
SeededUsersReset(usrs, stamp) ==
    IF UserByAccount(usrs, "admin") = None
    THEN (NextId(usrs) :> [DefaultAdmin EXCEPT !.id = NextId(usrs), !.rec = stamp])
             @@ usrs
    ELSE LET a == UserByAccount(usrs, "admin")[1]
         IN  [usrs EXCEPT ![a.id] = [DefaultAdmin EXCEPT !.id = a.id, !.rec = a.rec]]

\* app.py init_db(), lines 62-66 (models.py:174-178): the user table after
\* the bootstrap; the row is added only when no row has the account 'admin'
SeededUsers(usrs, stamp) ==
    IF UserByAccount(usrs, "admin") = None
    THEN (NextId(usrs) :> [DefaultAdmin EXCEPT !.id = NextId(usrs), !.rec = stamp])
             @@ usrs
    ELSE usrs

\* app.py init_db(), lines 50-71, run at every start of the application
\* (app.py:115); the observation holds the id of the row it created, 0 when
\* it created none
init_db ==
    LET created == UserByAccount(users, "admin") = None
    IN  /\ created => born < MaxBorn
        /\ users' = SeededUsers(users, born + 1)
        /\ born' = IF created THEN born + 1 ELSE born
        /\ resp' = Response("init_db", 0, "", "admin", "",
                            IF created THEN NextId(users) ELSE 0, 1, 0, None,
                            FALSE, {})
        /\ UNCHANGED <<now, session>> /\ Stores

\* the passwords of the administrator: the default one and a rotated one
BootPasswords == {"admin123", "rotated1"}

\* request bodies of PUT /api/admin/users/1: the password is rotated, the
\* account is disabled, the role is changed
BootBodies ==
    {("password" :> "rotated1"), ("enabled" :> FALSE), ("role" :> "teacher")}

NextBoot ==
    \/ init_db
    \/ \E c \in Clients, pw \in BootPasswords : Login(c, "admin", pw)
    \/ \E c \in Clients, body \in BootBodies : AdminUpdateUser(c, 1, body)
    \/ \E c \in Clients : admin_delete_user(c, 1)

SpecBoot == InitGuard /\ [][NextBoot]_vars

---------------------------------------------------------------------------
(* Vocabulary of the properties *)

\* a well-formed login attempt of the session-cookie stack on account a
Attempt(a, p) ==
    /\ p /= ""
    /\ resp'.op = "login" /\ resp'.account = a /\ resp'.password = p
    /\ \E c \in Clients, raw \in RawAccounts : Strip(raw) = a /\ Login(c, raw, p)

\* a login attempt of the bearer-token stack on account a
TokenAttempt(a, p) ==
    /\ resp'.op = "token_login" /\ resp'.account = a /\ resp'.password = p
    /\ LoginToken(a, p)

\* the lock-expiry the ledger holds for a, -1 when it holds none
LedgerExpiry(cfg, a) ==
    IF lock_key(a) \in DOMAIN cfg /\ cfg[lock_key(a)] \in DecimalStrings
    THEN IntTable[cfg[lock_key(a)]]
    ELSE -1

\* the failure counter the ledger holds for a, 0 when it holds none
LedgerCount(cfg, a) ==
    IF fail_key(a) \in DOMAIN cfg /\ cfg[fail_key(a)] \in DecimalStrings
    THEN IntTable[cfg[fail_key(a)]]
    ELSE 0

\* a has a user record / an enabled one / p is its password
Exists(a) == \E i \in DOMAIN users : users[i].account = a

Enabled(a) == \E i \in DOMAIN users : users[i].account = a /\ users[i].enabled

Correct(a, p) ==
    \E i \in DOMAIN users :
        users[i].account = a /\ users[i].password_hash = generate_password_hash(p)

---------------------------------------------------------------------------
(* C1: once an account has had threshold consecutive failed attempts,      *)
(* counted from a zero counter, every attempt on it made before the        *)
(* lock-expiry owed by the last of them is answered 429 Locked, whether    *)
(* its password is right or wrong and whether the account exists.          *)
C1_LockedAfterThreshold ==
    [][\A a \in Accounts, p \in Passwords :
          (Attempt(a, p) /\ streak[a] = MAX_TRIES /\ now < due[a])
              => (resp'.status = 429 /\ resp'.error = ErrLocked)]_vars

\* the correct password is answered 429 inside the lock window
C1_Witness ==
    /\ resp.op = "login" /\ resp.status = 429
    /\ resp.account = "admin" /\ resp.password = "admin123"
    /\ streak["admin"] = MAX_TRIES /\ now < due["admin"]

\* the requests that have ended, and those still running
Ended == {q \in Procs : pc[q] = "done"}

Running == {q \in Procs : pc[q] \notin {"idle", "done"}}

\* every request so far carried a wrong password for the account
AllWrong(a) ==
    \A q \in Procs : pc[q] /= "idle" => (loc[q].acc = a /\ ~Correct(a, loc[q].pw))

(* C2, as claimed: when at least threshold wrong-password attempts on one  *)
(* account, begun on a zero counter without a lock, have all ended, the    *)
(* ledger holds a lock-expiry in the future, whatever the interleaving.    *)
C2_ConcurrentFailuresLock ==
    (/\ Ended = Procs
     /\ AllWrong("admin")
     /\ Cardinality(Procs) >= MAX_TRIES)
        => now < LedgerExpiry(config, "admin")

(* C3, as claimed: when two wrong-password attempts on one account, begun  *)
(* on the counter 0 with a threshold above 2, have both ended and none is  *)
(* running, the counter is 2; and every request tests the threshold on     *)
(* the committed counter plus one, never on an earlier reading of it.      *)
C3_BothFailuresCounted ==
    /\ (/\ Running = {}
        /\ Cardinality(Ended) = 2
        /\ AllWrong("admin")
        /\ 2 < MAX_TRIES)
           => LedgerCount(config, "admin") = 2
    /\ \A q \in Procs : pc[q] /= "idle" => loc[q].fresh

(* C4: an attempt on an account whose record is disabled never succeeds    *)
(* and never issues a session or a token, in either stack and whatever     *)
(* the ledger holds.                                                       *)
C4_DisabledNeverAuthenticates ==
    [][\A a \in Accounts, p \in Passwords :
          ((Attempt(a, p) \/ TokenAttempt(a, p)) /\ Exists(a) /\ ~Enabled(a))
              => /\ resp'.status /= 200
                 /\ resp'.token = None
                 /\ session' = session]_vars

\* a disabled account was refused although its password was right
C4_Witness ==
    /\ resp.op = "login" /\ resp.status = 403
    /\ resp.password = "admin123" /\ Exists(resp.account) /\ ~Enabled(resp.account)

C6_SuccessResetsLedger ==
    [][\A a \in Accounts, p \in Passwords :
          (Attempt(a, p) /\ resp'.status = 200)
              => /\ ConfigGet(config', fail_key(a)) = Some("0")
                 /\ LedgerExpiry(config', a) = -1
                 /\ ~Truthy(ConfigGet(config', lock_key(a)))]_vars

\* a success on an account whose ledger held an expired lock
C6_Witness ==
    /\ resp.op = "login" /\ resp.status = 200
    /\ resp.had_lock
    /\ ConfigGet(config, lock_key(resp.account)) = Some("")
    /\ ConfigGet(config, fail_key(resp.account)) = Some("0")

(* C7: while the ledger holds a lock-expiry in the future, an attempt is   *)
(* answered 429 without reading the users table and without running the    *)
(* password verifier.                                                      *)
C7_LockedShortCircuits ==
    [][\A a \in Accounts, p \in Passwords :
          (Attempt(a, p) /\ now < LedgerExpiry(config, a))
              => /\ resp'.status = 429
                 /\ resp'.lookups = 0
                 /\ resp'.verifies = 0
                 /\ config' = config]_vars

C7_Witness ==
    /\ resp.op = "login" /\ resp.status = 429
    /\ resp.lookups = 0 /\ resp.verifies = 0
    /\ now < LedgerExpiry(config, resp.account)

(* C8, as claimed: the first attempt evaluated after a lock, made at or    *)
(* after its expiry, is not answered 429; with the correct password on an  *)
(* enabled account it succeeds; and if it fails the counter becomes 1.     *)
C8_AfterExpiryCountsFromOne ==
    [][\A a \in Accounts, p \in Passwords :
          (Attempt(a, p) /\ due[a] >= 0 /\ now >= due[a])
              => /\ resp'.status /= 429
                 /\ (Enabled(a) /\ Correct(a, p)) => resp'.status = 200
                 /\ resp'.status = 401
                       => ConfigGet(config', fail_key(a)) = Some("1")]_vars

(* C8, amended: as claimed for a threshold of 2 or more; with a threshold  *)
(* of 1 or less the failing attempt reaches the threshold itself, so it    *)
(* sets a new lock and leaves the counter 0.                               *)
C8_AfterExpiryEvaluated ==
    [][\A a \in Accounts, p \in Passwords :
          (Attempt(a, p) /\ due[a] >= 0 /\ now >= due[a])
              => /\ resp'.status /= 429
                 /\ (Enabled(a) /\ Correct(a, p)) => resp'.status = 200
                 /\ resp'.status = 401
                       => IF MAX_TRIES >= 2
                          THEN /\ ConfigGet(config', fail_key(a)) = Some("1")
                               /\ ConfigGet(config', lock_key(a))
                                     = ConfigGet(config, lock_key(a))
                          ELSE /\ ConfigGet(config', fail_key(a)) = Some("0")
                               /\ LedgerExpiry(config', a) = now + LOCK_SECONDS]_vars

\* a failure after the expiry of a lock left the counter at 1
C8_Witness ==
    /\ resp.op = "login" /\ resp.status = 401
    /\ LedgerExpiry(config, resp.account) >= 0
    /\ LedgerExpiry(config, resp.account) <= now
    /\ ConfigGet(config, fail_key(resp.account)) = Some("1")
    /\ streak[resp.account] = 1

(* C9: a failed attempt that is evaluated (the account is not locked) is   *)
(* answered 401, also when it is the one that brings the counter to the    *)
(* threshold, and that one sets the lock to now + lock duration. In a run  *)
(* of failures counted from a zero counter, the failures before the        *)
(* threshold-th leave the lock as it was and the threshold-th sets it.     *)
C9_ThresholdAttemptRejected ==
    [][\A a \in Accounts, p \in Passwords :
          (Attempt(a, p) /\ ~Correct(a, p) /\ ~(now < LedgerExpiry(config, a)))
              => /\ resp'.status = 401 /\ resp'.error = ErrBadCredentials
                 /\ IF LedgerCount(config, a) + 1 < MAX_TRIES
                    THEN ConfigGet(config', lock_key(a)) = ConfigGet(config, lock_key(a))
                    ELSE LedgerExpiry(config', a) = now + LOCK_SECONDS
                 /\ streak'[a] \in 1..(MAX_TRIES - 1)
                       => ConfigGet(config', lock_key(a)) = ConfigGet(config, lock_key(a))
                 /\ streak'[a] = MAX_TRIES
                       => LedgerExpiry(config', a) = now + LOCK_SECONDS]_vars

\* the sixth failure in a row was answered 401 and set the lock
C9_Witness ==
    /\ MAX_TRIES = 6
    /\ resp.op = "login" /\ resp.status = 401
    /\ streak[resp.account] = 6
    /\ LedgerExpiry(config, resp.account) = now + LOCK_SECONDS

(* C10: an evaluated attempt on an account without a record is answered    *)
(* and counted exactly as a wrong password on an account with one: 401     *)
(* with the same message, the counter of the submitted name raised by one  *)
(* (created at 1), and at the threshold that name locked.                  *)
C10_MissingAccountAsWrongPassword ==
    [][\A a \in Accounts, p \in Passwords :
          (Attempt(a, p) /\ ~(now < LedgerExpiry(config, a))
             /\ (~Exists(a) \/ ~Correct(a, p)))
              => /\ resp'.status = 401 /\ resp'.error = ErrBadCredentials
                 /\ resp'.uid = 0 /\ session' = session
                 /\ IF LedgerCount(config, a) + 1 < MAX_TRIES
                    THEN /\ ConfigGet(config', fail_key(a))
                               = Some(Str(LedgerCount(config, a) + 1))
                         /\ fail_key(a) \notin DOMAIN config
                               => config'[fail_key(a)] = "1"
                    ELSE /\ ConfigGet(config', fail_key(a)) = Some("0")
                         /\ LedgerExpiry(config', a) = now + LOCK_SECONDS]_vars

\* an account name without a record has been locked
C10_Witness ==
    /\ resp.op = "login" /\ resp.status = 401 /\ ~Exists(resp.account)
    /\ now < LedgerExpiry(config, resp.account)
    /\ MAX_TRIES = 2

---------------------------------------------------------------------------
(* C11: when a failed attempt (401) brings the counter to the threshold,   *)
(* the ledger that attempt commits holds lock-expiry = now + lock_duration *)
(* and failure counter '0'; the duration is 900 seconds when               *)
(* LOGIN_LOCK_SECONDS is unset.                                            *)
C11_ThresholdSetsLockAndResets ==
    [][\A a \in Accounts, p \in Passwords :
          (Attempt(a, p) /\ resp'.status = 401
              /\ LedgerCount(config, a) + 1 >= MAX_TRIES)
              => /\ LedgerExpiry(config', a) = now + LOCK_SECONDS
                 /\ ConfigGet(config', fail_key(a)) = Some("0")
                 /\ (env["LOGIN_LOCK_SECONDS"] = None
                        => LedgerExpiry(config', a) = now + DefaultLockSeconds)]_vars

\* the sixth failure under the default settings, made after the first tick
C11_Witness ==
    /\ env["LOGIN_MAX_TRIES"] = None /\ env["LOGIN_LOCK_SECONDS"] = None
    /\ resp.op = "login" /\ resp.status = 401 /\ resp.account = "admin"
    /\ streak["admin"] = DefaultMaxTries /\ now > 0
    /\ LedgerExpiry(config, "admin") = now + DefaultLockSeconds
    /\ ConfigGet(config, fail_key("admin")) = Some("0")

---------------------------------------------------------------------------
(* C12: every Locked answer (429) of login() carries a retry-after value   *)
(* in the response returned to the caller.                                 *)
C12_LockedCarriesRetryAfter ==
    (resp.op = "login" /\ resp.status = 429) => "retry_after" \in resp.keys

---------------------------------------------------------------------------
(* C13: a login request whose account is empty after trimming, or whose    *)
(* password is empty, is answered 400 with the missing-fields message      *)
(* whatever the ledger holds (a lock in force included); the ledger and    *)
(* the session are left as they were, the users table is not read and no   *)
(* password is verified.                                                   *)
C13_MissingFieldsRejectedFirst ==
    [][\A c \in Clients, raw \in RawAccounts, p \in Passwords :
          (/\ resp'.op = "login" /\ resp'.account = Strip(raw) /\ resp'.password = p
           /\ (Strip(raw) = "" \/ p = "")
           /\ Login(c, raw, p))
              => /\ resp'.status = 400 /\ resp'.error = ErrMissing
                 /\ config' = config /\ session' = session
                 /\ resp'.lookups = 0 /\ resp'.verifies = 0
                 /\ ~resp'.had_lock /\ resp'.uid = 0]_vars

\* an empty password on a locked account, sent from a logged-in session
C13_Witness ==
    /\ resp.op = "login" /\ resp.status = 400
    /\ resp.account = "admin" /\ resp.password = ""
    /\ now < LedgerExpiry(config, "admin")
    /\ session["c1"] = 1

---------------------------------------------------------------------------
(* C14: when a ledger write of a login attempt fails in the database (the  *)
(* increment, the lock, a reset; at a flush or at the commit), the attempt *)
(* ends 500 with nothing of it committed and no session issued. An attempt *)
(* that ends 401 has committed its count (or the lock and the counter '0'  *)
(* at the threshold); one that ends 200 has committed the cleared ledger.  *)
C14_FailedWriteFailsAttempt ==
    [][\A p \in Procs :
          /\ (StorageFault(p)
                 \/ (pc[p] \in WriteSteps /\ pc'[p] /= pc[p] /\ FlushConflict(p)))
                => /\ pc'[p] = "done" /\ loc'[p].status = 500
                   /\ config' = config /\ session' = session
          /\ (pc[p] /= "done" /\ pc'[p] = "done" /\ loc'[p].status = 401)
                => IF ReachedThreshold(loc[p].cur, MAX_TRIES)
                   THEN /\ ConfigGet(config', fail_key(loc[p].acc)) = Some("0")
                        /\ LedgerExpiry(config', loc[p].acc)
                              = loc[p].now_ts + LOCK_SECONDS
                   ELSE ConfigGet(config', fail_key(loc[p].acc))
                              = Some(Str(loc[p].cur))
          /\ (pc[p] /= "done" /\ pc'[p] = "done" /\ loc'[p].status = 200)
                => /\ ConfigGet(config', fail_key(loc[p].acc)) = Some("0")
                   /\ ConfigGet(config', lock_key(loc[p].acc)) = Some("")]_vars

\* on a ledger whose rows exist (no INSERT, so no IntegrityError), a
\* wrong-password request at the threshold and a right-password request
\* have ended 500 on a failed write: no lock, no session
C14_Witness ==
    /\ ConfigGet(config, lock_key("admin")) = Some("")
    /\ \A q \in Procs : pc[q] = "done" /\ loc[q].status /= 200
    /\ \E p, q \in Procs :
          /\ loc[p].status = 500 /\ loc[p].pw = "wrong"
          /\ ReachedThreshold(loc[p].cur, MAX_TRIES)
          /\ loc[q].status = 500 /\ loc[q].pw = "admin123"
    /\ session["c1"] = 0

---------------------------------------------------------------------------
(* Vocabulary of the guard properties *)

\* the guarded operations of the session-cookie stack
CookieOps ==
    {"admin_get_site", "admin_create_user", "admin_update_user", "admin_delete_user"}

\* a request of client c to a guarded operation of the session-cookie stack
CookieRequest(c) ==
    /\ resp'.op \in CookieOps
    /\ \/ admin_get_site(c)
       \/ \E body \in CreateBodies : admin_create_user(c, body)
       \/ \E body \in GuardBodies : AdminUpdateUser(c, 2, body)
       \/ admin_delete_user(c, 2)

\* a request to an operation of the bearer-token stack with header h
BearerRequest(h, op) ==
    /\ resp'.op = op
    /\ TokenRequest(h, op)

\* the roles an operation requires: admin for the management of users,
\* teacher or admin for the other admin operations
RolesFor(op) ==
    IF op \in {"admin_get_site", "main_admin_get_site"} THEN {"teacher", "admin"}
    ELSE {"admin"}

\* the record a cookie resolves to, and the one a genuine header resolves to
CookieUser(c) == current_user(users, session_uid(session[c]))

BearerUser(h) == UserByAccount(users, h[1].claims.sub)

\* the guard has answered and the operation has not run
Refused == resp'.status \in {401, 403} /\ users' = users /\ born' = born

\* the kept copies of the cookie client c sends / of the token in header h
CopiesOfCookie(c) == {k \in kept : k.kind = "cookie" /\ k.uid = session[c]}

CopiesOfToken(h) ==
    {k \in kept : k.kind = "token" /\ h = Bearer([sub |-> k.sub, exp |-> k.exp], TRUE)}

\* the header is a genuine token that has not expired
Live(h) == h /= None /\ h[1].genuine /\ h[1].claims.exp >= now

---------------------------------------------------------------------------
(* C15, as claimed: once a user record is disabled, every request to a     *)
(* guarded operation that presents an artifact issued to that record is    *)
(* refused, by the session-cookie guard and by the bearer-token guard.     *)
C15_DisabledArtifactRefused ==
    [][/\ \A c \in Clients :
            (/\ CookieRequest(c)
             /\ CookieUser(c) /= None /\ ~CookieUser(c)[1].enabled
             /\ \E k \in CopiesOfCookie(c) : k.rec = CookieUser(c)[1].rec)
                => Refused
       /\ \A h \in Headers, op \in TokenOps :
            (/\ BearerRequest(h, op)
             /\ Live(h) /\ BearerUser(h) /= None /\ ~BearerUser(h)[1].enabled
             /\ \E k \in CopiesOfToken(h) : k.rec = BearerUser(h)[1].rec)
                => Refused]_vars

---------------------------------------------------------------------------
(* C16: both guards decide on the role the user record holds at the time   *)
(* of the request: a request to an operation whose required roles do not   *)
(* contain that role is answered 403 and the operation does not run, also  *)
(* when the artifact was issued while the record held a sufficient role;   *)
(* a request whose live role suffices is not answered 403 for its role.    *)
C16_LiveRoleDecides ==
    [][/\ \A c \in Clients :
            (CookieRequest(c) /\ CookieUser(c) /= None)
                => IF CookieUser(c)[1].role \notin RolesFor(resp'.op)
                   THEN resp'.status = 403 /\ resp'.error = "forbidden" /\ Refused
                   ELSE resp'.status \notin {401, 403}
       /\ \A h \in Headers, op \in TokenOps \ {"read_users_me"} :
            (/\ BearerRequest(h, op)
             /\ Live(h) /\ BearerUser(h) /= None /\ BearerUser(h)[1].enabled)
                => IF BearerUser(h)[1].role \notin RolesFor(op)
                   THEN resp'.status = 403 /\ resp'.error = "Access denied"
                   ELSE resp'.status = 200 /\ resp'.uid = BearerUser(h)[1].id]_vars

\* a cookie issued to a teacher is refused at the site settings once the
\* record has been made a student
C16_Witness ==
    /\ resp.op = "admin_get_site" /\ resp.status = 403
    /\ \E k \in CopiesOfCookie("c1") :
          /\ k.role = "teacher"
          /\ k.uid \in DOMAIN users
          /\ users[k.uid].rec = k.rec /\ users[k.uid].role = "student"

---------------------------------------------------------------------------
(* C17, as claimed: once logout has answered, the next request of the      *)
(* session-cookie stack (current identity, or a guarded operation) that    *)
(* presents the cookie the logout request came with yields no identity.    *)
C17_LogoutRevokes ==
    [][\A c \in Clients :
          (/\ resp.op = "logout" /\ resp.status = 200 /\ resp.uid /= 0
           /\ session[c] = resp.uid
           /\ (me(c) \/ CookieRequest(c)))
              => /\ resp'.uid = 0
                 /\ resp'.op = "me" => resp'.keys = {}
                 /\ resp'.op /= "me" => resp'.status = 401]_vars

---------------------------------------------------------------------------
(* C18, as claimed: a request that presents an artifact and is found to    *)
(* come from a user is found to come from the record the artifact was      *)
(* issued to, whatever records were deleted and created in between.        *)
C18_ArtifactBoundToRecord ==
    [][/\ \A c \in Clients :
            ((me(c) \/ CookieRequest(c)) /\ resp'.uid /= 0)
                => \A k \in CopiesOfCookie(c) : users[resp'.uid].rec = k.rec
       /\ \A h \in Headers, op \in TokenOps :
            (BearerRequest(h, op) /\ resp'.uid /= 0)
                => \A k \in CopiesOfToken(h) : users[resp'.uid].rec = k.rec]_vars

---------------------------------------------------------------------------
(* C19: a request to a guarded operation whose artifact is missing, is     *)
(* not one the server signed, has expired, or resolves to no user record   *)
(* is answered 401 and the operation does not run.                         *)
C19_NoIdentityUnauthenticated ==
    [][/\ \A c \in Clients :
            (CookieRequest(c) /\ CookieUser(c) = None)
                => /\ resp'.status = 401 /\ resp'.error = "login_required"
                   /\ resp'.uid = 0 /\ Refused
       /\ \A h \in Headers, op \in TokenOps :
            (BearerRequest(h, op) /\ (~Live(h) \/ BearerUser(h) = None))
                => resp'.status = 401 /\ resp'.uid = 0 /\ Refused]_vars

\* a kept token is answered 401 once its lifetime has passed
C19_Witness ==
    /\ resp.op \in TokenOps /\ resp.status = 401
    /\ resp.token /= None /\ resp.token[1].exp < now
    /\ \E k \in kept : k.kind = "token" /\ k.sub = resp.token[1].sub
                           /\ k.exp = resp.token[1].exp
    /\ UserByAccount(users, resp.token[1].sub) /= None

---------------------------------------------------------------------------
(* C20, as claimed: for an artifact that is valid and resolves to a user   *)
(* record, the guard answers 403 exactly when the role of the record is    *)
(* not among the roles the operation requires.                             *)
C20_ForbiddenIffRoleMissing ==
    [][/\ \A c \in Clients :
            (CookieRequest(c) /\ CookieUser(c) /= None)
                => (resp'.status = 403
                       <=> CookieUser(c)[1].role \notin RolesFor(resp'.op))
       /\ \A h \in Headers, op \in TokenOps \ {"read_users_me"} :
            (BearerRequest(h, op) /\ Live(h) /\ BearerUser(h) /= None)
                => (resp'.status = 403
                       <=> BearerUser(h)[1].role \notin RolesFor(op))]_vars

(* C20, amended: for an artifact that is valid and resolves to an enabled  *)
(* user record, the guard answers 403 and the operation does not run       *)
(* exactly when the role of the record is not among the roles the          *)
(* operation requires (admin for the management of users, teacher or admin *)
(* for the other admin operations); otherwise the operation runs. The      *)
(* bearer-token guard answers 403 for a disabled record whatever its role. *)
C20_ForbiddenIffRoleMissingOrDisabled ==
    [][/\ \A c \in Clients :
            (/\ CookieRequest(c)
             /\ CookieUser(c) /= None /\ CookieUser(c)[1].enabled)
                => /\ resp'.status = 403
                       <=> CookieUser(c)[1].role \notin RolesFor(resp'.op)
                   /\ resp'.status = 403 => Refused
                   /\ resp'.status /= 401
       /\ \A h \in Headers, op \in TokenOps \ {"read_users_me"} :
            (BearerRequest(h, op) /\ Live(h) /\ BearerUser(h) /= None)
                => /\ resp'.status = 403
                       <=> (\/ BearerUser(h)[1].role \notin RolesFor(op)
                            \/ ~BearerUser(h)[1].enabled)
                   /\ resp'.status \in {200, 403}]_vars

\* the token of an enabled teacher is answered 403 at the list of users
C20_Witness ==
    /\ resp.op = "main_admin_list_users" /\ resp.status = 403
    /\ resp.error = "Access denied"
    /\ resp.token /= None
    /\ \E k \in kept : k.kind = "token" /\ k.sub = resp.token[1].sub
                           /\ k.exp = resp.token[1].exp /\ k.exp >= now
    /\ UserByAccount(users, resp.token[1].sub) /= None
    /\ UserByAccount(users, resp.token[1].sub)[1].role = "teacher"
    /\ UserByAccount(users, resp.token[1].sub)[1].enabled

\* C21: in every reachable state the role of every stored user record is one
\* of student, teacher, admin, whatever the bodies of the create-user and
\* update-user requests were
C21_StoredRolesEnumerated ==
    \A i \in DOMAIN users : users[i].role \in RolePattern

---------------------------------------------------------------------------
(* C22: the current-identity operation ends in a documented outcome, the   *)
(* identity {id, account, name, role} of an existing user or the empty     *)
(* outcome (200 null / 401), for every session it is called with, the      *)
(* session of a user deleted after the login included; never in an         *)
(* unhandled error.                                                        *)
C22_CurrentIdentityDocumented ==
    resp.op = "me" =>
        \/ resp.status = 200 /\ resp.keys = {} /\ resp.uid = 0
        \/ resp.status = 401 /\ resp.uid = 0
        \/ /\ resp.status = 200 /\ resp.keys = {"id", "account", "name", "role"}
           /\ resp.uid \in DOMAIN users /\ users[resp.uid].account = resp.account

---------------------------------------------------------------------------
(* C23: the login of the bearer-token stack performs no lockout: it leaves *)
(* the ledger as it is, never answers 429, and its answer depends on the   *)
(* user record alone, so the correct password of an enabled account is     *)
(* answered 200 with a token whatever failed attempts came before and      *)
(* whatever the ledger holds for the account.                              *)
C23_TokenLoginNoLockout ==
    [][\A a \in Accounts, p \in Passwords :
          TokenAttempt(a, p)
              => /\ config' = config
                 /\ resp'.status /= 429
                 /\ resp'.status = (IF ~(Exists(a) /\ Correct(a, p)) THEN 401
                                    ELSE IF ~Enabled(a) THEN 403 ELSE 200)
                 /\ (resp'.status = 200) = (resp'.token /= None)]_vars

\* the token login is answered 200 while the ledger holds a lock on the
\* account that has not expired
C23_Witness ==
    /\ resp.op = "token_login" /\ resp.status = 200 /\ resp.token /= None
    /\ resp.account = "admin"
    /\ IsLocked(ConfigGet(config, lock_key("admin")), now)
    /\ streak["admin"] = MAX_TRIES

---------------------------------------------------------------------------
(* C24: the bootstrap is idempotent and never touches an existing record:  *)
(* when a record has the account 'admin' the user store is left as it is   *)
(* (a rotated password stays rotated); when none has, exactly one record   *)
(* is added, with account 'admin', role admin and the default password;    *)
(* and a second run on the store it yields changes nothing.                *)
C24_BootstrapIdempotent ==
    [][init_db =>
          /\ Exists("admin") => users' = users
          /\ ~Exists("admin") =>
                \E i \in DOMAIN users' :
                    /\ DOMAIN users' = DOMAIN users \cup {i} /\ i \notin DOMAIN users
                    /\ \A j \in DOMAIN users : users'[j] = users[j]
                    /\ users'[i].account = "admin" /\ users'[i].role = "admin"
                    /\ check_password(users'[i], "admin123")
          /\ SeededUsers(users', born') = users']_vars

\* the bootstrap has run on a store whose administrator has rotated the
\* password, and the record still has the rotated password
C24_Witness ==
    /\ resp.op = "init_db" /\ resp.uid = 0
    /\ Exists("admin") /\ Correct("admin", "rotated1")

---------------------------------------------------------------------------
(* C25: a login is answered 200, and sets the uid of the session, only     *)
(* when at that attempt the account holds no lock-expiry or the expiry has *)
(* been reached, a record with the account exists, the password verifies   *)
(* against its hash and the record is enabled; every other answer (400,    *)
(* 401, 403, 429) leaves the session the request came with as it was.      *)
C25_SuccessOnlyWhenAllHold ==
    [][\A c \in Clients, raw \in RawAccounts, p \in Passwords :
          (resp'.op = "login" /\ resp'.account = Strip(raw) /\ resp'.password = p
              /\ Login(c, raw, p))
              => LET a == Strip(raw)
                 IN  /\ resp'.status \in {200, 400, 401, 403, 429}
                     /\ resp'.status = 200
                           => /\ LedgerExpiry(config, a) = -1
                                    \/ now >= LedgerExpiry(config, a)
                              /\ Exists(a) /\ Correct(a, p) /\ Enabled(a)
                              /\ session'[c] = UserByAccount(users, a)[1].id
                              /\ resp'.uid = session'[c]
                     /\ resp'.status /= 200 => session' = session
                     /\ \A d \in Clients \ {c} : session'[d] = session[d]]_vars

\* an attempt is answered 200 on an account whose lock-expiry has been
\* reached, and the session holds the uid of the record
C25_Witness ==
    /\ resp.op = "login" /\ resp.status = 200 /\ resp.had_lock
    /\ resp.uid /= 0 /\ \E c \in Clients : session[c] = resp.uid

---------------------------------------------------------------------------
(* C26: a login attempt made while the account is locked (now before the   *)
(* lock-expiry) leaves the ledger as it is: the failure counter is not     *)
(* incremented and the lock-expiry is not moved, however often the attempt *)
(* is repeated.                                                            *)
C26_LockedAttemptLeavesLedger ==
    [][\A c \in Clients, raw \in RawAccounts, p \in Passwords :
          (resp'.op = "login" /\ resp'.account = Strip(raw) /\ resp'.password = p
              /\ now < LedgerExpiry(config, Strip(raw))
              /\ Login(c, raw, p))
              => /\ config' = config
                 /\ LedgerCount(config', Strip(raw)) = LedgerCount(config, Strip(raw))
                 /\ LedgerExpiry(config', Strip(raw)) = LedgerExpiry(config, Strip(raw))
                 /\ resp'.status \in {400, 429}]_vars

\* an attempt is answered 429 later than the instant the lock was set at,
\* and the lock-expiry is the one that was owed before the attempt
C26_Witness ==
    /\ resp.op = "login" /\ resp.status = 429
    /\ now < LedgerExpiry(config, resp.account)
    /\ LedgerExpiry(config, resp.account) < now + LOCK_SECONDS
    /\ LedgerExpiry(config, resp.account) = due[resp.account]

---------------------------------------------------------------------------
(* C27: an attempt with the correct password on a disabled account that is *)
(* not locked leaves the ledger as it is: the failure counter is neither   *)
(* incremented nor reset and no lock is set or cleared, so the failures    *)
(* counted before it are still counted after it.                           *)
C27_DisabledAttemptLeavesLedger ==
    [][\A a \in Accounts, p \in Passwords :
          (Attempt(a, p) /\ Exists(a) /\ ~Enabled(a) /\ Correct(a, p)
             /\ ~(now < LedgerExpiry(config, a)))
              => /\ resp'.status = 403
                 /\ config' = config
                 /\ LedgerCount(config', a) = LedgerCount(config, a)
                 /\ ConfigGet(config', lock_key(a)) = ConfigGet(config, lock_key(a))]_vars

\* the correct password of a disabled account is answered 403 and the
\* counter still holds the failures counted before, one short of the
\* threshold
C27_Witness ==
    /\ resp.op = "login" /\ resp.status = 403
    /\ Correct(resp.account, resp.password) /\ ~Enabled(resp.account)
    /\ MAX_TRIES >= 2
    /\ LedgerCount(config, resp.account) = MAX_TRIES - 1
    /\ ~(now < LedgerExpiry(config, resp.account))

---------------------------------------------------------------------------
(* C28: with a threshold of 1 or more, in every committed state of the     *)
(* ledger the failure counter of every account is an integer in            *)
(* 0..threshold-1, however the login attempts are interleaved: a counter   *)
(* at or above the threshold is never committed, it is reset to 0 in the   *)
(* transaction that sets the lock.                                         *)
C28_CommittedCounterBelowThreshold ==
    MAX_TRIES >= 1 =>
        \A a \in Accounts :
            fail_key(a) \in DOMAIN config
                => /\ config[fail_key(a)] \in DecimalStrings
                   /\ IntTable[config[fail_key(a)]] \in 0..(MAX_TRIES - 1)

\* a request that counted from a stale reading of the counter has committed
\* its failure, and the committed ledger holds a lock and the counter 0
C28_Witness ==
    /\ \E p \in Procs : pc[p] = "done" /\ loc[p].status = 401 /\ ~loc[p].fresh
    /\ IsLocked(ConfigGet(config, lock_key("admin")), now)
    /\ ConfigGet(config, fail_key("admin")) = Some("0")

---------------------------------------------------------------------------
(* C29: the ledger is kept per account name: a login attempt for account a *)
(* leaves the failure counter and the lock-expiry of every other account   *)
(* as they were, and its answer is the one it would get from a ledger      *)
(* without the rows of the other accounts, so attempts on one account      *)
(* never lock another.                                                     *)
C29_LedgerPerAccount ==
    [][\A a \in Accounts, p \in Passwords :
          Attempt(a, p)
              => LET others == Accounts \ {a}
                     foreign == {fail_key(b) : b \in others}
                                   \cup {lock_key(b) : b \in others}
                     own == [k \in DOMAIN config \ foreign |-> config[k]]
                 IN  /\ \A b \in others :
                           /\ ConfigGet(config', fail_key(b))
                                 = ConfigGet(config, fail_key(b))
                           /\ ConfigGet(config', lock_key(b))
                                 = ConfigGet(config, lock_key(b))
                     /\ \A k \in foreign : (k \in DOMAIN config') = (k \in DOMAIN config)
                     /\ resp'.status =
                           LoginResult(own, users, MAX_TRIES, LOCK_SECONDS, now, a, p).status
                     /\ resp'.status = 429 => now < LedgerExpiry(config, a)]_vars

\* the login of one account succeeds while another account is locked
C29_Witness ==
    /\ resp.op = "login" /\ resp.status = 200 /\ resp.account = "admin"
    /\ now < LedgerExpiry(config, "ghost")
    /\ LedgerExpiry(config, "admin") = -1

====
